---- MODULE Spec2Model ----
(***************************************************************************)
(* State-machine model of sfx-player (src/src/index.ts): the module-level  *)
(* audio cache and playback policy, the SoundEffectsPlayer methods, the    *)
(* free-standing stopSound utility and the setTimeout callbacks the play   *)
(* methods schedule.                                                       *)
(*                                                                         *)
(* Volumes are counted in tenths (7 is 0.7, 10 is 1.0); times in seconds.  *)
(* An optional argument is a sequence: <<>> is `undefined`, <<v>> is v.    *)
(* An HTMLAudioElement is the record of the fields the library touches:    *)
(* src, volume, loop, currentTime, paused.  An element reference is its    *)
(* index in `instances`; 0 is a null/undefined reference.                  *)
(***************************************************************************)
EXTENDS Integers, Sequences, FiniteSets, TLC

\* ---------------------------------------------------------------- bounds
MaxInstances == 2       \* Audio elements handed out, when their life is followed
MaxCallInstances == 1   \* Audio elements handed out, when the calls are followed
RandDen == 4        \* Math.random() yields n/RandDen, n in 0..RandDen-1
MaxSamples == 3     \* longest sample array the index arithmetic is checked for

\* ---------------------------------------------------------------- inputs
Managers == {"A", "B"}
Keys == {"a", "b"}
NoPath == "none"

\* SoundConfigs the managers are constructed with, in property order.
\* In SharedPaths "a" is mapped by both managers and "b" only by A.
SharedPaths ==
    [A |-> << <<"a", "a.mp3">>, <<"b", "b.mp3">> >>,
     B |-> << <<"a", "a.mp3">> >>]

\* In VolumePaths only A maps "a"; B plays what is cached already.
VolumePaths ==
    [A |-> << <<"a", "a.mp3">> >>,
     B |-> << >>]

\* In RivalPaths the managers map "a" to different files.
RivalPaths ==
    [A |-> << <<"a", "a.mp3">> >>,
     B |-> << <<"a", "a2.mp3">> >>]

DefaultVolume == 7
S1 == [start |-> 0, duration |-> 1]
S2 == [start |-> 2, duration |-> 1]
Rands == 0..(RandDen - 1)

VARIABLES
    audioCache,         \* key -> src of the cached Audio element, or NoPath
    loads,              \* key -> number of `new Audio(path)` + load() done for the cache
    globalVolume,
    muted,
    soundPaths,         \* manager -> its SoundConfig
    sampleCollections,  \* manager -> key -> <<>> or <<samples>>
    instances,          \* the Audio elements created by the play methods
    timers,             \* pending setTimeout callbacks
    last,               \* the most recent call and what it returned
    console             \* what the most recent task wrote to the console

vars == <<audioCache, loads, globalVolume, muted, soundPaths,
          sampleCollections, instances, timers, last, console>>

\* ------------------------------------------------------------ primitives
Min(a, b) == IF a < b THEN a ELSE b
Max(a, b) == IF a > b THEN a ELSE b

\* `key in this.soundPaths` and `this.soundPaths[key]`
InPaths(paths, key) == \E j \in 1..Len(paths) : paths[j][1] = key
PathOf(paths, key) ==
    LET j == CHOOSE j \in 1..Len(paths) : paths[j][1] = key IN paths[j][2]

\* The arguments of a call: a key, a volume, a flag (loop or isMuted) and
\* an element, each where the method has one.
NoArgs == [key |-> "", volume |-> <<>>, flag |-> FALSE, audio |-> 0]
KeyArg(key) == [NoArgs EXCEPT !.key = key]
VolumeArg(volume) == [NoArgs EXCEPT !.volume = <<volume>>]
FlagArg(flag) == [NoArgs EXCEPT !.flag = flag]
AudioArg(audio) == [NoArgs EXCEPT !.audio = audio]
PlayArgs(key, volume, loop) == [NoArgs EXCEPT !.key = key, !.volume = volume, !.flag = loop]

\* A call of the API: its name, receiver and arguments, and its outcome
\* (result: the element returned, 0 for undefined; threw: it raised).
Call(op, m, args, result, threw) ==
    [op |-> op, m |-> m, key |-> args.key, volume |-> args.volume,
     flag |-> args.flag, audio |-> args.audio, result |-> result, threw |-> threw]

Warn(text, key) == [level |-> "warn", text |-> text, key |-> key]
Error(text, key) == [level |-> "error", text |-> text, key |-> key]

ClampVolume_NoLowerBound(volume) == Min(10, volume)

\* Math.max(0, Math.min(1, volume))
ClampVolume(volume) == Max(0, Min(10, volume))

preloadSound_NoHasCheck(c, key, path) ==
    [cache |-> [c.cache EXCEPT ![key] = path],
     loads |-> [c.loads EXCEPT ![key] = @ + 1]]

\* preloadSound's effect on the cache and on the load count
preloadSound(c, key, path) ==
    IF c.cache[key] = NoPath
    THEN [cache |-> [c.cache EXCEPT ![key] = path],
          loads |-> [c.loads EXCEPT ![key] = @ + 1]]
    ELSE c

\* Object.entries(this.soundPaths).forEach(preloadSound), first j entries
RECURSIVE preloadEntries(_, _, _)
preloadEntries(c, paths, j) ==
    IF j = 0 THEN c
    ELSE preloadSound(preloadEntries(c, paths, j - 1), paths[j][1], paths[j][2])

lazyPreload_OwnPath(c, paths, key) ==
    IF InPaths(paths, key)
    THEN preloadSound_NoHasCheck(c, key, PathOf(paths, key))
    ELSE c

lazyPreload_NoRegistryCheck(c, paths, key) ==
    IF c.cache[key] = NoPath
    THEN preloadSound(c, key, IF InPaths(paths, key) THEN PathOf(paths, key)
                                                     ELSE "undefined")
    ELSE c

\* `if (!audioCache.has(key) && key in this.soundPaths) preloadSound(...)`
lazyPreload(c, paths, key) ==
    IF c.cache[key] = NoPath /\ InPaths(paths, key)
    THEN preloadSound(c, key, PathOf(paths, key))
    ELSE c

CacheState == [cache |-> audioCache, loads |-> loads]

NewInstance_FalsyVolume(src, volume) ==
    [src |-> src,
     volume |-> IF volume # <<>> /\ volume[1] # 0 THEN volume[1] ELSE globalVolume,
     loop |-> FALSE, currentTime |-> 0, paused |-> TRUE]

\* new Audio(audio.src) with the volume the play methods give it
NewInstance(src, volume) ==
    [src |-> src,
     volume |-> IF volume # <<>> THEN volume[1] ELSE globalVolume,
     loop |-> FALSE, currentTime |-> 0, paused |-> TRUE]

RandomIndex_First(r, n) == ((r \div RandDen) * n) + 1

\* Math.floor(Math.random() * samples.length), as a 1-based index
RandomIndex(r, n) == ((r * n) \div RandDen) + 1

\* a pending setTimeout callback and what its closure captured
Timer(kind, inst, key, sample) ==
    [kind |-> kind, inst |-> inst, key |-> key, sample |-> sample]

\* method stopSound: `if (audio) { audio.pause(); audio.currentTime = 0 }`
stopSoundMethod(insts, audio) ==
    IF audio # 0
    THEN [insts EXCEPT ![audio] = [@ EXCEPT !.paused = TRUE, !.currentTime = 0]]
    ELSE insts

stopSoundUtil_NoReset(insts, audio) ==
    IF audio # 0
    THEN [insts EXCEPT ![audio] = [@ EXCEPT !.paused = TRUE]]
    ELSE insts

\* exported function stopSound
stopSoundUtil(insts, audio) ==
    IF audio # 0
    THEN [insts EXCEPT ![audio] = [@ EXCEPT !.paused = TRUE, !.currentTime = 0]]
    ELSE insts

\* getVolume() and isMuted() of manager m
GetVolume(m) == globalVolume
IsMuted(m) == muted

\* --------------------------------------------------------------- actions
\* new SoundEffectsPlayer(soundPaths, initialVolume), taking the place of m
Construct(m, paths, initialVolume) ==
    /\ soundPaths' = [soundPaths EXCEPT ![m] = paths]
    /\ sampleCollections' = [sampleCollections EXCEPT ![m] = [k \in Keys |-> <<>>]]
    /\ globalVolume' = ClampVolume(initialVolume)
    /\ last' = Call("constructor", m, VolumeArg(initialVolume), 0, FALSE)
    /\ console' = <<>>
    /\ UNCHANGED <<audioCache, loads, muted, instances, timers>>

RegisterSamples(m, key, samples) ==
    /\ sampleCollections' = [sampleCollections EXCEPT ![m][key] = <<samples>>]
    /\ last' = Call("registerSamples", m, KeyArg(key), 0, FALSE)
    /\ console' = <<>>
    /\ UNCHANGED <<audioCache, loads, globalVolume, muted, soundPaths,
                   instances, timers>>

PreloadSound(m, key, path) ==
    LET c == preloadSound(CacheState, key, path) IN
    /\ audioCache' = c.cache
    /\ loads' = c.loads
    /\ last' = Call("preloadSound", m, KeyArg(key), 0, FALSE)
    /\ console' = <<>>
    /\ UNCHANGED <<globalVolume, muted, soundPaths, sampleCollections,
                   instances, timers>>

PreloadAllSounds(m) ==
    LET c == preloadEntries(CacheState, soundPaths[m], Len(soundPaths[m])) IN
    /\ audioCache' = c.cache
    /\ loads' = c.loads
    /\ last' = Call("preloadAllSounds", m, NoArgs, 0, FALSE)
    /\ console' = <<>>
    /\ UNCHANGED <<globalVolume, muted, soundPaths, sampleCollections,
                   instances, timers>>

PlayUnmuted_ReusesInstance(m, key, volume, loop) ==
    LET c == lazyPreload(CacheState, soundPaths[m], key)
        soundInstance == Max(1, Len(instances))
        audio == [NewInstance(c.cache[key], volume) EXCEPT !.loop = loop]
    IN
    /\ audioCache' = c.cache
    /\ loads' = c.loads
    /\ IF c.cache[key] # NoPath
       THEN /\ instances' = IF instances = <<>> THEN <<audio>>
                             ELSE [instances EXCEPT ![soundInstance] = audio]
            /\ timers' = timers \cup {Timer("play", soundInstance, key, <<>>)}
            /\ last' = Call("playSound", m, PlayArgs(key, volume, loop), soundInstance, FALSE)
            /\ console' = <<>>
       ELSE /\ console' = <<Warn("not found in audio cache", key)>>
            /\ last' = Call("playSound", m, PlayArgs(key, volume, loop), 0, FALSE)
            /\ UNCHANGED <<instances, timers>>
    /\ UNCHANGED <<globalVolume, muted, soundPaths, sampleCollections>>

\* playSound past the mute check
PlayUnmuted(m, key, volume, loop) ==
    LET c == lazyPreload(CacheState, soundPaths[m], key)
        soundInstance == Len(instances) + 1
    IN
    /\ audioCache' = c.cache
    /\ loads' = c.loads
    /\ IF c.cache[key] # NoPath
       THEN /\ instances' = Append(instances,
                   [NewInstance(c.cache[key], volume) EXCEPT !.loop = loop])
            /\ timers' = timers \cup {Timer("play", soundInstance, key, <<>>)}
            /\ last' = Call("playSound", m, PlayArgs(key, volume, loop), soundInstance, FALSE)
            /\ console' = <<>>
       ELSE /\ console' = <<Warn("not found in audio cache", key)>>
            /\ last' = Call("playSound", m, PlayArgs(key, volume, loop), 0, FALSE)
            /\ UNCHANGED <<instances, timers>>
    /\ UNCHANGED <<globalVolume, muted, soundPaths, sampleCollections>>

PlaySound_NoMuteCheck(m, key, volume, loop) == PlayUnmuted(m, key, volume, loop)

PlaySound(m, key, volume, loop) ==
    IF muted
    THEN /\ last' = Call("playSound", m, PlayArgs(key, volume, loop), 0, FALSE)
         /\ console' = <<>>
         /\ UNCHANGED <<audioCache, loads, globalVolume, muted, soundPaths,
                        sampleCollections, instances, timers>>
    ELSE PlayUnmuted(m, key, volume, loop)

SampleUnmuted_StopScheduledAtCall(op, m, key, samples, volume, r) ==
    LET c == lazyPreload(CacheState, soundPaths[m], key)
        soundInstance == Len(instances) + 1
    IN
    /\ audioCache' = c.cache
    /\ loads' = c.loads
    /\ IF c.cache[key] # NoPath
       THEN IF samples = <<>>
            THEN /\ last' = Call(op, m, PlayArgs(key, volume, FALSE), 0, TRUE)
                 /\ console' = <<>>
                 /\ UNCHANGED <<instances, timers>>
            ELSE LET randomSample == samples[RandomIndex(r, Len(samples))] IN
                 /\ instances' = Append(instances,
                       [NewInstance(c.cache[key], volume)
                           EXCEPT !.currentTime = randomSample.start])
                 /\ timers' = timers \cup
                       {Timer("playSample", soundInstance, key, <<randomSample>>),
                        Timer("stop", soundInstance, key, <<randomSample>>)}
                 /\ last' = Call(op, m, PlayArgs(key, volume, FALSE), soundInstance, FALSE)
                 /\ console' = <<>>
       ELSE /\ console' = <<Warn("not found in audio cache", key)>>
            /\ last' = Call(op, m, PlayArgs(key, volume, FALSE), 0, FALSE)
            /\ UNCHANGED <<instances, timers>>
    /\ UNCHANGED <<globalVolume, muted, soundPaths, sampleCollections>>

\* playSoundSample past the mute check; op names the method the caller
\* invoked (playRegisteredSample returns whatever playSoundSample returns).
\* With an empty `samples`, samples[0] is undefined and reading
\* randomSample.start throws a TypeError, after the lazy preload and the
\* creation of an element that no one holds.
SampleUnmuted(op, m, key, samples, volume, r) ==
    LET c == lazyPreload(CacheState, soundPaths[m], key)
        soundInstance == Len(instances) + 1
    IN
    /\ audioCache' = c.cache
    /\ loads' = c.loads
    /\ IF c.cache[key] # NoPath
       THEN IF samples = <<>>
            THEN /\ last' = Call(op, m, PlayArgs(key, volume, FALSE), 0, TRUE)
                 /\ console' = <<>>
                 /\ UNCHANGED <<instances, timers>>
            ELSE LET randomSample == samples[RandomIndex(r, Len(samples))] IN
                 /\ instances' = Append(instances,
                       [NewInstance(c.cache[key], volume)
                           EXCEPT !.currentTime = randomSample.start])
                 /\ timers' = timers \cup
                       {Timer("playSample", soundInstance, key, <<randomSample>>)}
                 /\ last' = Call(op, m, PlayArgs(key, volume, FALSE), soundInstance, FALSE)
                 /\ console' = <<>>
       ELSE /\ console' = <<Warn("not found in audio cache", key)>>
            /\ last' = Call(op, m, PlayArgs(key, volume, FALSE), 0, FALSE)
            /\ UNCHANGED <<instances, timers>>
    /\ UNCHANGED <<globalVolume, muted, soundPaths, sampleCollections>>

SampleBody_NoMuteCheck(op, m, key, samples, volume, r) ==
    SampleUnmuted(op, m, key, samples, volume, r)

\* The body of playSoundSample
SampleBody(op, m, key, samples, volume, r) ==
    IF muted
    THEN /\ last' = Call(op, m, PlayArgs(key, volume, FALSE), 0, FALSE)
         /\ console' = <<>>
         /\ UNCHANGED <<audioCache, loads, globalVolume, muted, soundPaths,
                        sampleCollections, instances, timers>>
    ELSE SampleUnmuted(op, m, key, samples, volume, r)

PlaySoundSample(m, key, samples, volume, r) ==
    SampleBody("playSoundSample", m, key, samples, volume, r)

PlayRegisteredSample_SharedCollections(m, key, volume, r) ==
    IF \E n \in Managers : sampleCollections[n][key] # <<>>
    THEN LET n == CHOOSE n \in Managers : sampleCollections[n][key] # <<>> IN
         SampleBody("playRegisteredSample", m, key, sampleCollections[n][key][1], volume, r)
    ELSE /\ console' = <<Warn("No sample collection registered", key)>>
         /\ last' = Call("playRegisteredSample", m, PlayArgs(key, volume, FALSE), 0, FALSE)
         /\ UNCHANGED <<audioCache, loads, globalVolume, muted, soundPaths,
                        sampleCollections, instances, timers>>

\* `key in this.sampleCollections`, for keys that are not names of
\* properties an object inherits
PlayRegisteredSample(m, key, volume, r) ==
    IF sampleCollections[m][key] # <<>>
    THEN SampleBody("playRegisteredSample", m, key, sampleCollections[m][key][1], volume, r)
    ELSE /\ console' = <<Warn("No sample collection registered", key)>>
         /\ last' = Call("playRegisteredSample", m, PlayArgs(key, volume, FALSE), 0, FALSE)
         /\ UNCHANGED <<audioCache, loads, globalVolume, muted, soundPaths,
                        sampleCollections, instances, timers>>

\* manager.stopSound(audio); audio = 0 is a null/undefined argument
StopSound(m, audio) ==
    /\ instances' = stopSoundMethod(instances, audio)
    /\ last' = Call("stopSound", m, AudioArg(audio), 0, FALSE)
    /\ console' = <<>>
    /\ UNCHANGED <<audioCache, loads, globalVolume, muted, soundPaths,
                   sampleCollections, timers>>

\* the exported stopSound(audio)
StopSoundUtil(audio) ==
    /\ instances' = stopSoundUtil(instances, audio)
    /\ last' = Call("stopSound", "", AudioArg(audio), 0, FALSE)
    /\ console' = <<>>
    /\ UNCHANGED <<audioCache, loads, globalVolume, muted, soundPaths,
                   sampleCollections, timers>>

SetVolume(m, volume) ==
    /\ globalVolume' = ClampVolume(volume)
    /\ last' = Call("setVolume", m, VolumeArg(volume), 0, FALSE)
    /\ console' = <<>>
    /\ UNCHANGED <<audioCache, loads, muted, soundPaths, sampleCollections,
                   instances, timers>>

SetMuted_PausesAll(m, isMuted) ==
    /\ muted' = isMuted
    /\ instances' = IF isMuted
                    THEN [i \in 1..Len(instances) |-> [instances[i] EXCEPT !.paused = TRUE]]
                    ELSE instances
    /\ last' = Call("setMuted", m, FlagArg(isMuted), 0, FALSE)
    /\ console' = <<>>
    /\ UNCHANGED <<audioCache, loads, globalVolume, soundPaths, sampleCollections,
                   timers>>

SetMuted(m, isMuted) ==
    /\ muted' = isMuted
    /\ last' = Call("setMuted", m, FlagArg(isMuted), 0, FALSE)
    /\ console' = <<>>
    /\ UNCHANGED <<audioCache, loads, globalVolume, soundPaths, sampleCollections,
                   instances, timers>>

\* ------------------------------------------------------ deferred callbacks
StartKinds == {"play", "playSample"}
PendingStarts == {t \in timers : t.kind \in StartKinds}

FireStart_RejectionSkipsStop(i, ok) ==
    \E t \in PendingStarts :
        /\ t.inst = i
        /\ \A u \in PendingStarts : u.inst >= i
        /\ instances' = IF ok THEN [instances EXCEPT ![i].paused = FALSE] ELSE instances
        /\ console' = IF ok THEN <<>> ELSE <<Error("Error playing sound", t.key)>>
        /\ timers' = IF t.kind = "playSample" /\ ok
                     THEN (timers \ {t}) \cup {Timer("stop", i, t.key, t.sample)}
                     ELSE timers \ {t}
        /\ UNCHANGED <<audioCache, loads, globalVolume, muted, soundPaths,
                       sampleCollections, last>>

\* The setTimeout(..., 0) callback of the play call that returned element i.
\* Zero-delay timers run in the order they were set.  soundInstance.play()
\* either starts playback (ok) or its promise rejects and the catch logs it.
\* For playSoundSample the callback then sets the timer of the stop.
FireStart(i, ok) ==
    \E t \in PendingStarts :
        /\ t.inst = i
        /\ \A u \in PendingStarts : u.inst >= i
        /\ instances' = IF ok THEN [instances EXCEPT ![i].paused = FALSE] ELSE instances
        /\ console' = IF ok THEN <<>> ELSE <<Error("Error playing sound", t.key)>>
        /\ timers' = IF t.kind = "playSample"
                     THEN (timers \ {t}) \cup {Timer("stop", i, t.key, t.sample)}
                     ELSE timers \ {t}
        /\ UNCHANGED <<audioCache, loads, globalVolume, muted, soundPaths,
                       sampleCollections, last>>

\* The setTimeout(..., duration * 1000) callback: this.stopSound(soundInstance)
FireStop(i) ==
    \E t \in timers :
        /\ t.kind = "stop"
        /\ t.inst = i
        /\ instances' = stopSoundMethod(instances, i)
        /\ timers' = timers \ {t}
        /\ console' = <<>>
        /\ UNCHANGED <<audioCache, loads, globalVolume, muted, soundPaths,
                       sampleCollections, last>>

\* ------------------------------------------------------- specifications
\* A profile P names the arguments the calls are made with and the number
\* of elements the play methods may create.
InitOver(P) ==
    /\ audioCache = [k \in Keys |-> NoPath]
    /\ loads = [k \in Keys |-> 0]
    /\ \E v \in P.initialVolumes :
          /\ globalVolume = ClampVolume(v)
          /\ last = Call("constructor", "B", VolumeArg(v), 0, FALSE)
    /\ muted = FALSE
    /\ soundPaths = P.soundPaths
    /\ sampleCollections = [m \in Managers |-> [k \in Keys |-> <<>>]]
    /\ instances = <<>>
    /\ timers = {}
    /\ console = <<>>

NextOver(P) ==
    \/ \E m \in P.managers, v \in P.initialVolumes : Construct(m, P.soundPaths[m], v)
    \/ \E e \in P.registrations : RegisterSamples(e[1], e[2], e[3])
    \/ \E m \in P.managers, e \in P.preloads : PreloadSound(m, e[1], e[2])
    \/ \E m \in P.managers : PreloadAllSounds(m)
    \/ \E m \in P.managers, k \in P.keys, v \in P.overrides, l \in P.loops :
         PlaySound(m, k, v, l) /\ Len(instances') <= P.cap
    \/ \E m \in P.managers, k \in P.keys, s \in P.samples, v \in P.overrides, r \in P.rands :
         PlaySoundSample(m, k, s, v, r) /\ Len(instances') <= P.cap
    \/ \E m \in P.managers, k \in P.keys, v \in P.overrides, r \in P.rands :
         PlayRegisteredSample(m, k, v, r) /\ Len(instances') <= P.cap
    \/ \E m \in P.managers, a \in 0..Len(instances) : StopSound(m, a)
    \/ \E a \in 0..Len(instances) : StopSoundUtil(a)
    \/ \E m \in P.managers, v \in P.setVolumes : SetVolume(m, v)
    \/ \E m \in P.managers, b \in P.mutes : SetMuted(m, b)
    \/ \E i \in 1..Len(instances), ok \in P.starts : FireStart(i, ok)
    \/ \E i \in 1..Len(instances) : FireStop(i)

\* Calls of both managers on both keys; one volume, no loop.
CallProfile ==
    [managers |-> Managers, keys |-> Keys, cap |-> MaxCallInstances,
     soundPaths |-> SharedPaths,
     initialVolumes |-> {DefaultVolume}, setVolumes |-> {DefaultVolume},
     overrides |-> {<<>>}, loops |-> {FALSE}, starts |-> {TRUE},
     preloads |-> {<<"b", "b2.mp3">>},
     registrations |-> {<<"B", "a", <<S2>>>>},
     samples |-> {<<S2>>}, rands |-> {0}, mutes |-> BOOLEAN]

\* Volumes: both managers set the global volume, plays of one key with and
\* without an override, looping or not, the mute flag left off.
VolumeProfile ==
    [managers |-> Managers, keys |-> {"a"}, cap |-> MaxCallInstances,
     soundPaths |-> VolumePaths,
     initialVolumes |-> {13}, setVolumes |-> {-3, 4, 13},
     overrides |-> {<<>>, <<0>>}, loops |-> BOOLEAN, starts |-> {TRUE},
     preloads |-> {<<"a", "a.mp3">>},
     registrations |-> {<<"A", "a", <<S1>>>>},
     samples |-> {<<S1>>}, rands |-> {0}, mutes |-> {FALSE}]

\* The life of the elements one manager hands out for one key.
LifeProfile ==
    [managers |-> {"A"}, keys |-> {"a"}, cap |-> MaxInstances,
     soundPaths |-> SharedPaths,
     initialVolumes |-> {DefaultVolume}, setVolumes |-> {DefaultVolume},
     overrides |-> {<<>>}, loops |-> {FALSE}, starts |-> BOOLEAN,
     preloads |-> {<<"a", "a.mp3">>},
     registrations |-> {<<"A", "a", <<S1, S2>>>>},
     samples |-> {<<S1, S2>>}, rands |-> Rands, mutes |-> BOOLEAN]

Init == InitOver(CallProfile)
Next == NextOver(CallProfile)
Spec == Init /\ [][Next]_vars

VolumeInit == InitOver(VolumeProfile)
VolumeNext == NextOver(VolumeProfile)
VolumeSpec == VolumeInit /\ [][VolumeNext]_vars

LifeInit == InitOver(LifeProfile)
LifeNext == NextOver(LifeProfile)
LifeSpec == LifeInit /\ [][LifeNext]_vars

\* The event loop runs every callback whose timer has expired.
TimersFire ==
    \A i \in 1..MaxInstances :
        /\ WF_vars(\E ok \in BOOLEAN : FireStart(i, ok))
        /\ WF_vars(FireStop(i))

\* The life of the elements of LifeProfile with one sample to select and
\* the mute flag left off.
LiveProfile ==
    [LifeProfile EXCEPT !.registrations = {<<"A", "a", <<S2>>>>},
                        !.samples = {<<S2>>}, !.rands = {0}, !.mutes = {FALSE}]

LiveInit == InitOver(LiveProfile)
LiveNext == NextOver(LiveProfile)
LiveSpec == LiveInit /\ [][LiveNext]_vars /\ TimersFire

\* Sample plays of two managers that map one key to different files, with
\* sample arrays of no, one and two samples and every value of Math.random().
SampleProfile ==
    [managers |-> Managers, keys |-> {"a"}, cap |-> MaxCallInstances,
     soundPaths |-> RivalPaths,
     initialVolumes |-> {DefaultVolume}, setVolumes |-> {DefaultVolume},
     overrides |-> {<<>>}, loops |-> {FALSE}, starts |-> {TRUE},
     preloads |-> {<<"a", "a.mp3">>},
     registrations |-> {<<"A", "a", <<>>>>, <<"A", "a", <<S1, S2>>>>,
                        <<"B", "a", <<S2>>>>},
     samples |-> {<<>>, <<S1>>, <<S1, S2>>}, rands |-> Rands, mutes |-> BOOLEAN]

SampleInit == InitOver(SampleProfile)
SampleNext == NextOver(SampleProfile)
SampleSpec == SampleInit /\ [][SampleNext]_vars

\* The policy and the elements: a manager sets the volume and the mute
\* flag and is constructed anew while elements play and starts are pending.
PolicyProfile ==
    [managers |-> {"A"}, keys |-> {"a"}, cap |-> MaxInstances,
     soundPaths |-> VolumePaths,
     initialVolumes |-> {DefaultVolume}, setVolumes |-> {4},
     overrides |-> {<<>>}, loops |-> {FALSE}, starts |-> {TRUE},
     preloads |-> {<<"a", "a.mp3">>},
     registrations |-> {<<"A", "a", <<S2>>>>},
     samples |-> {<<S2>>}, rands |-> {0}, mutes |-> BOOLEAN]

PolicyInit == InitOver(PolicyProfile)
PolicyNext == NextOver(PolicyProfile)
PolicySpec == PolicyInit /\ [][PolicyNext]_vars

\* ------------------------------------------------------------ properties
NotFound(key) == Warn("not found in audio cache", key)
TimersOf(i) == {t \in timers : t.inst = i}
Created(i) == i \in 1..Len(instances)
Stopped(i) == Created(i) /\ instances[i].paused /\ instances[i].currentTime = 0

\* C1: while the mute flag is set, every playSound and playSoundSample
\* call, for any key, returns undefined, creates no element and sets no
\* timer.
C1_MutedPlayDoesNothing ==
    [][\A m \in Managers, k \in Keys, v \in CallProfile.overrides :
          (/\ muted
           /\ last'.m = m /\ last'.key = k
           /\ \/ \E l \in BOOLEAN : PlaySound(m, k, v, l)
              \/ \E s \in CallProfile.samples, r \in Rands :
                    PlaySoundSample(m, k, s, v, r))
          => /\ last'.result = 0
             /\ instances' = instances
             /\ timers' = timers]_vars

\* a muted play of a key that is cached, so that it would have played
C1_Witness ==
    /\ muted
    /\ last.op \in {"playSound", "playSoundSample"}
    /\ audioCache[last.key] # NoPath
    /\ last.result = 0
    /\ console = <<>>

C3_PlayReturnsConfiguredInstance ==
    (/\ last.op = "playSound"
     /\ ~muted
     /\ (audioCache[last.key] # NoPath \/ InPaths(soundPaths[last.m], last.key)))
    => /\ Created(last.result)
       /\ instances[last.result].volume =
              (IF last.volume = <<>> THEN globalVolume ELSE last.volume[1])
       /\ instances[last.result].loop = last.flag
       /\ audioCache[last.key] # NoPath

\* a looping play with the override 0 while the global volume is 1.0
C3_Witness ==
    /\ last.op = "playSound"
    /\ last.volume = <<0>>
    /\ last.flag
    /\ globalVolume = 10
    /\ Created(last.result)
    /\ instances[last.result].volume = 0
    /\ instances[last.result].loop

\* C4: preloading is idempotent over the calls of all managers: a key is
\* cached exactly when its cache element was created and loaded once, and
\* never more than once.
C4_PreloadOnce ==
    \A k \in Keys :
        /\ loads[k] <= 1
        /\ (loads[k] = 1) <=> (audioCache[k] # NoPath)

\* preloadSound("b", "b2.mp3") was called when "b" was cached already
C4_Witness ==
    /\ last.op = "preloadSound"
    /\ last.key = "b"
    /\ audioCache["b"] = "b.mp3"
    /\ loads["b"] = 1

\* clamp(v, 0, 1), in tenths
Clamp01(v) == IF v < 0 THEN 0 ELSE IF v > 10 THEN 10 ELSE v

\* C5: the global volume is within [0, 1] in every state, and after the
\* constructor or setVolume of any manager was given v, getVolume() of
\* every manager returns clamp(v, 0, 1).
C5_VolumeClamped ==
    /\ globalVolume >= 0
    /\ globalVolume <= 10
    /\ last.op \in {"constructor", "setVolume"}
          => \A m \in Managers : GetVolume(m) = Clamp01(last.volume[1])

\* B.setVolume(-0.3), read through A
C5_Witness ==
    /\ last.op = "setVolume"
    /\ last.m = "B"
    /\ last.volume = <<-3>>
    /\ GetVolume("A") = 0

\* C6: once the caller has stopped an element a play method returned,
\* also when the deferred start has not run yet, the element is paused at
\* cursor 0 and no callback of the manager starts it playing.
C6_StopIsFinal ==
    \A i \in 1..Len(instances) :
        (last.op = "stopSound" /\ last.audio = i) => Stopped(i)

\* the start and the timed stop of every sample element eventually run and
\* leave it paused at cursor 0
SampleEventuallyStopped ==
    \A i \in 1..MaxInstances :
        (\E t \in TimersOf(i) : t.kind = "playSample")
            ~> (Stopped(i) /\ TimersOf(i) = {})

\* the timed stop of an element the caller has stopped changes no element
TimedStopAfterManualStopIsNoOp ==
    [][\A i \in 1..Len(instances) :
          (last.op = "stopSound" /\ last.audio = i /\ FireStop(i))
              => instances' = instances]_vars

\* C7: every element playSoundSample returns is eventually stopped by the
\* timer of the manager (its callbacks have all run and it is paused at
\* cursor 0), whether or not the caller stopped it before the timer fired,
\* and after such a manual stop the timed stop changes nothing observable.
C7_StoppedByTimer ==
    /\ SampleEventuallyStopped
    /\ TimedStopAfterManualStopIsNoOp

\* C8: when the deferred start of playSoundSample issues play(), the
\* cursor of the element is at the start of the sample selected for the
\* call, whatever the caller did in between.
C8_StartsAtSampleStart ==
    [][\A i \in 1..Len(instances), ok \in BOOLEAN :
          FireStart(i, ok) =>
            \A t \in TimersOf(i) :
                t.kind = "playSample" => instances[i].currentTime = t.sample[1].start]_vars

\* C9: stopping is idempotent and null-safe: for every element in every
\* state a second stop changes nothing after the first, which leaves the
\* element paused at cursor 0 and the other elements as they were; a stop
\* of a null reference changes nothing; the exported stopSound has the
\* effect of the method.
C9_StopIdempotent ==
    \A a \in 0..Len(instances) :
        LET once == stopSoundMethod(instances, a) IN
        /\ stopSoundMethod(once, a) = once
        /\ stopSoundUtil(stopSoundUtil(instances, a), a) = once
        /\ stopSoundUtil(instances, a) = once
        /\ a = 0 => once = instances
        /\ a # 0 => /\ once[a].paused
                    /\ once[a].currentTime = 0
                    /\ \A j \in 1..Len(instances) : j # a => once[j] = instances[j]

\* an element was stopped while another is playing at the start of S2
C9_Witness ==
    /\ last.op = "stopSound"
    /\ last.audio > 0
    /\ Stopped(last.audio)
    /\ \E j \in 1..Len(instances) :
          ~instances[j].paused /\ instances[j].currentTime = S2.start

\* C10: mute is process-wide: while the flag is set, every playSound,
\* playSoundSample and playRegisteredSample call of every manager returns
\* undefined; setMuted of any manager sets what isMuted() of every manager
\* returns, and nothing else changes it.
C10_MuteIsProcessWide ==
    [][/\ \A m \in Managers, k \in Keys, v \in CallProfile.overrides :
            (/\ muted
             /\ last'.m = m /\ last'.key = k
             /\ \/ \E l \in BOOLEAN : PlaySound(m, k, v, l)
                \/ \E s \in CallProfile.samples, r \in Rands :
                      PlaySoundSample(m, k, s, v, r)
                \/ \E r \in Rands : PlayRegisteredSample(m, k, v, r))
            => (last'.result = 0 /\ Len(instances') = Len(instances))
       /\ \A a \in Managers, b \in BOOLEAN :
            SetMuted(a, b) => \A m \in Managers : IsMuted(m)' = b
       /\ (muted' # muted) => \E a \in Managers, b \in BOOLEAN : SetMuted(a, b)]_vars

\* a muted playRegisteredSample of B for its registered, cached key
C10_Witness ==
    /\ IsMuted("A")
    /\ last.op = "playRegisteredSample"
    /\ last.m = "B"
    /\ sampleCollections["B"][last.key] # <<>>
    /\ audioCache[last.key] # NoPath
    /\ last.result = 0
    /\ console = <<>>
\* the methods that play a sound
PlayFamily == {"playSound", "playSoundSample", "playRegisteredSample"}

\* C11: no play call raises: every playSound, playSoundSample and
\* playRegisteredSample call, also one given an empty sample array for a
\* cached key while not muted, returns an element or undefined.
C11_NoUnhandledFault ==
    last.op \in PlayFamily => ~last.threw

NoCollection(key) == Warn("No sample collection registered", key)

C13_SelectsProvidedSample ==
    [][(last'.op = "playSoundSample" /\ last'.result # 0) =>
        \A m \in Managers, k \in Keys, s \in SampleProfile.samples,
           v \in SampleProfile.overrides, r \in Rands :
            (/\ last'.m = m /\ last'.key = k
             /\ s # <<>>
             /\ PlaySoundSample(m, k, s, v, r))
            => /\ \A n \in 1..MaxSamples : RandomIndex(r, n) \in 1..n
               /\ \E t \in timers' \ timers :
                  /\ t.kind = "playSample"
                  /\ t.inst = last'.result
                  /\ \E j \in 1..Len(s) : t.sample = <<s[j]>>
                  /\ Len(s) = 1 => t.sample = <<s[1]>>
                  /\ Len(s) = 2 =>
                        t.sample = <<IF 2 * r < RandDen THEN s[1] ELSE s[2]>>
                  /\ instances'[t.inst].currentTime = t.sample[1].start]_vars

\* playSoundSample selected the second of two samples
C13_Witness ==
    /\ last.op = "playSoundSample"
    /\ Created(last.result)
    /\ instances[last.result].currentTime = S2.start
    /\ \E t \in TimersOf(last.result) : t.kind = "playSample" /\ t.sample = <<S2>>

PendingStart(i) == \E t \in TimersOf(i) : t.kind \in StartKinds
PendingStop(i) == \E t \in TimersOf(i) : t.kind = "stop"

\* C14: the timer of the stop of an element is set only by the start
\* callback of that element, so a stop callback never runs while the start
\* of its element is still pending, whatever callbacks of other calls run
\* in between.
C14_StopScheduledByStart ==
    [][/\ timers' # timers =>
          \A i \in 1..Len(instances') :
            (\E t \in timers' \ timers : t.inst = i /\ t.kind = "stop")
            => /\ i <= Len(instances)
               /\ PendingStart(i)
               /\ ~PendingStart(i)'
               /\ \E ok \in BOOLEAN : FireStart(i, ok)
       /\ \A i \in 1..Len(instances) :
            PendingStop(i) => ~PendingStart(i)
       /\ timers' # timers =>
          \A i \in 1..Len(instances) :
            (PendingStop(i) /\ FireStop(i)) => ~PendingStart(i)]_vars

\* the stop of the first element is pending while the start of the second is
C14_Witness ==
    /\ Len(instances) >= 2
    /\ PendingStop(1)
    /\ PendingStart(2)

\* C15: setVolume and setMuted change no element and cancel no timer: an
\* element that is playing keeps playing when the mute flag is set, and a
\* start callback of a play call made before runs while the flag is set
\* and starts its element.
C15_SettersLeaveElementsAlone ==
    [][/\ last'.op = "setVolume" =>
          \A m \in PolicyProfile.managers, v \in PolicyProfile.setVolumes :
            SetVolume(m, v) => (instances' = instances /\ timers' = timers)
       /\ last'.op = "setMuted" =>
          \A m \in PolicyProfile.managers, b \in BOOLEAN :
            SetMuted(m, b) => (instances' = instances /\ timers' = timers)
       /\ (muted /\ timers' # timers) =>
          \A i \in 1..Len(instances) :
            (PendingStart(i) /\ FireStart(i, TRUE))
            => /\ ~instances'[i].paused
               /\ instances' = [instances EXCEPT ![i].paused = FALSE]]_vars

\* the mute flag was set while an element made at another volume is
\* playing and the start of a further one is pending
C15_Witness ==
    /\ muted
    /\ last.op = "setMuted"
    /\ \E i \in 1..Len(instances) :
          ~instances[i].paused /\ instances[i].volume # globalVolume
    /\ \E j \in 1..Len(instances) : PendingStart(j)

\* C16: the global volume and the mute flag are changed by setVolume and
\* setMuted only: no constructor call, registerSamples, preload, play or
\* stop call and no callback changes either.
C16_PolicySetOnlyBySetters ==
    [][/\ globalVolume' # globalVolume =>
            \E m \in Managers, v \in PolicyProfile.setVolumes : SetVolume(m, v)
       /\ muted' # muted =>
            \E m \in Managers, b \in BOOLEAN : SetMuted(m, b)]_vars

\* C17: every playSound and playSoundSample call that returns an element
\* has created exactly one, which is none of the elements returned before
\* and not the cached one (the cache is as it was if the key was cached),
\* and has left the earlier elements as they were; a stop by the caller
\* and a stop by a timer change at most the element stopped, and not the
\* cache.
C17_PlaysAreIndependent ==
    [][/\ (last'.op \in {"playSound", "playSoundSample"} /\ last'.result # 0) =>
          \A m \in PolicyProfile.managers, k \in PolicyProfile.keys :
            (\/ \E v \in PolicyProfile.overrides, l \in PolicyProfile.loops :
                  PlaySound(m, k, v, l)
             \/ \E s \in PolicyProfile.samples, v \in PolicyProfile.overrides,
                   r \in PolicyProfile.rands :
                  PlaySoundSample(m, k, s, v, r))
            => /\ Len(instances') = Len(instances) + 1
               /\ last'.result = Len(instances')
               /\ \A j \in 1..Len(instances) : instances'[j] = instances[j]
               /\ audioCache[k] # NoPath =>
                     (audioCache' = audioCache /\ loads' = loads)
       /\ (last'.op = "stopSound" \/ timers' # timers) =>
          \A a \in 1..Len(instances) :
            (\/ \E m \in PolicyProfile.managers : StopSound(m, a)
             \/ StopSoundUtil(a)
             \/ FireStop(a))
            => /\ Len(instances') = Len(instances)
               /\ \A j \in 1..Len(instances) : j # a => instances'[j] = instances[j]
               /\ audioCache' = audioCache
               /\ loads' = loads]_vars

\* of two elements of one sound, the first was stopped by the caller and
\* the second goes on playing
C17_Witness ==
    /\ Len(instances) = 2
    /\ instances[1].src = instances[2].src
    /\ last.op = "stopSound"
    /\ last.audio = 1
    /\ Stopped(1)
    /\ ~instances[2].paused

\* C18: a cache entry, once made, is never removed and never bound to
\* another file by any call of any manager or any callback, so every
\* element a play method creates has the src of the file cached first for
\* its key, also when the manager's own soundPaths names another file.
C18_CacheBindingsAreStable ==
    [][/\ \A k \in Keys :
            audioCache[k] # NoPath =>
                (audioCache'[k] = audioCache[k] /\ loads'[k] = loads[k])
       /\ Len(instances') > Len(instances) =>
            LET i == Len(instances') IN
            /\ last'.result = i
            /\ instances'[i].src = audioCache'[last'.key]
            /\ audioCache[last'.key] # NoPath =>
                  instances'[i].src = audioCache[last'.key]]_vars

\* A, whose soundPaths names a.mp3, played the file B had cached for "a"
C18_Witness ==
    /\ last.op \in PlayFamily
    /\ last.m = "A"
    /\ last.key = "a"
    /\ PathOf(soundPaths["A"], "a") = "a.mp3"
    /\ audioCache["a"] = "a2.mp3"
    /\ Created(last.result)
    /\ instances[last.result].src = "a2.mp3"

\* the start of the sample element i was rejected and its stop is pending
RejectedStart(i) ==
    /\ Created(i)
    /\ PendingStop(i)
    /\ instances[i].paused
    /\ instances[i].currentTime # 0

\* C19: when play() is rejected in the start callback, the callback writes
\* one error to the console, the caller's call and its result stay as they
\* were and no field of any element changes; for playSoundSample the timer
\* of the stop is set all the same, and it fires and leaves the element
\* paused at cursor 0.
C19_RejectedStartIsContained ==
    /\ [][(timers' # timers /\ console' # <<>>) =>
            \A i \in 1..Len(instances) :
              (PendingStart(i) /\ FireStart(i, FALSE))
              => /\ \E t \in TimersOf(i) :
                       /\ t.kind \in StartKinds
                       /\ console' = <<Error("Error playing sound", t.key)>>
                       /\ t.kind = "playSample" =>
                             Timer("stop", i, t.key, t.sample) \in timers'
                 /\ ~PendingStart(i)'
                 /\ instances' = instances
                 /\ last' = last
                 /\ ~last'.threw]_vars
    /\ \A i \in 1..MaxInstances :
          RejectedStart(i) ~> (Stopped(i) /\ TimersOf(i) = {})

\* play() of the sample element the last call returned was rejected
C19_Witness ==
    /\ last.op \in {"playSoundSample", "playRegisteredSample"}
    /\ RejectedStart(last.result)
    /\ instances[last.result].currentTime = S2.start
    /\ console = <<Error("Error playing sound", last.key)>>
====
